---- MODULE Spec2Model ----
(***************************************************************************)
(* Model of MT5Handler (src/app/mt5_handler.py): the symbol resolution     *)
(* cascade (map_symbol and its strategies), the order translator          *)
(* (send_order, verify_symbol, close_positions) and the connection        *)
(* lifecycle.  Strings are sequences of one-character strings.            *)
(***************************************************************************)
EXTENDS Integers, Sequences, FiniteSets, TLC

VARIABLES
    connected,       \* MT5Handler.connected
    symbol_cache,    \* MT5Handler.symbol_cache : external symbol -> broker symbol
    broker_symbols,  \* MT5Handler.broker_symbols : the universe snapshot
    last,            \* observation of the most recent public operation
    turn,            \* parity of the number of operations performed
    nArg,            \* argument of the normalisation experiment
    nRes,            \* results of the successive normalize applications
    cascade_memo,    \* the cascade's outcome per (universe, key, metadata), tabulated once
    pc,              \* where each request thread stands in the handler's code
    tl               \* each request thread's local variables and last result

vars == <<connected, symbol_cache, broker_symbols, last, turn, nArg, nRes, cascade_memo,
          pc, tl>>

-----------------------------------------------------------------------------
(* Bounds *)

\* most tokens in a string fed to normalize in the normalisation experiment
MaxNormLen == 3
\* most open positions the broker reports to one close_positions call
MaxPositions == 2

-----------------------------------------------------------------------------
(* Python string primitives *)

LowerToUpper ==
    "a" :> "A" @@ "b" :> "B" @@ "c" :> "C" @@ "d" :> "D" @@ "e" :> "E" @@
    "f" :> "F" @@ "g" :> "G" @@ "h" :> "H" @@ "i" :> "I" @@ "j" :> "J" @@
    "k" :> "K" @@ "l" :> "L" @@ "m" :> "M" @@ "n" :> "N" @@ "o" :> "O" @@
    "p" :> "P" @@ "q" :> "Q" @@ "r" :> "R" @@ "s" :> "S" @@ "t" :> "T" @@
    "u" :> "U" @@ "v" :> "V" @@ "w" :> "W" @@ "x" :> "X" @@ "y" :> "Y" @@
    "z" :> "Z"

UpperLetters ==
    {"A","B","C","D","E","F","G","H","I","J","K","L","M",
     "N","O","P","Q","R","S","T","U","V","W","X","Y","Z"}

Digits == {"0","1","2","3","4","5","6","7","8","9"}

\* str.upper()
upper(s) ==
    [i \in 1..Len(s) |-> IF s[i] \in DOMAIN LowerToUpper THEN LowerToUpper[s[i]] ELSE s[i]]

\* str.endswith(suffix)
endswith(s, suffix) ==
    /\ Len(suffix) <= Len(s)
    /\ SubSeq(s, Len(s) - Len(suffix) + 1, Len(s)) = suffix

\* str.startswith(prefix)
startswith(s, prefix) ==
    /\ Len(prefix) <= Len(s)
    /\ SubSeq(s, 1, Len(prefix)) = prefix

\* the Python expression  sub in s
contains(s, sub) ==
    \E i \in 0..(Len(s) - Len(sub)) : SubSeq(s, i + 1, i + Len(sub)) = sub

\* str.strip(): leading and trailing whitespace removed
strip(s) ==
    LET nonblank == {i \in 1..Len(s) : s[i] # " "}
    IN  IF nonblank = {} THEN <<>>
        ELSE SubSeq(s, CHOOSE i \in nonblank : \A j \in nonblank : i <= j,
                       CHOOSE i \in nonblank : \A j \in nonblank : j <= i)

\* str.replace(ch, '') for a one-character ch
remove_char(s, ch) == SelectSeq(s, LAMBDA c : c # ch)

\* v handed to F as a value that is computed once
Let(v, F(_)) == CHOOSE r \in {F(x) : x \in {v}} : TRUE

\* position of the first element of seq satisfying Test, 0 when there is none
FirstIndex(seq, Test(_)) ==
    LET hits == {i \in 1..Len(seq) : Test(seq[i])}
    IN  IF hits = {} THEN 0 ELSE CHOOSE i \in hits : \A j \in hits : i <= j

-----------------------------------------------------------------------------
(* normalize *)

suffixes_to_remove ==
    << <<"M">>, <<"P","R","O">>, <<".","P","R","O">>, <<"_","P","R","O">>,
       <<".","M">>, <<"_","M">>, <<".">>, <<"-">>, <<"_">> >>

prefixes_to_remove == << <<"M","T","5","_">>, <<"F","X","_">> >>

\* the suffix loop: the first list entry the string ends with is cut, then break
strip_suffix(s) ==
    LET k == FirstIndex(suffixes_to_remove, LAMBDA suf : endswith(s, suf))
    IN  IF k = 0 THEN s ELSE SubSeq(s, 1, Len(s) - Len(suffixes_to_remove[k]))

\* the prefix loop: the first list entry the string starts with is cut, then break
strip_prefix(s) ==
    LET k == FirstIndex(prefixes_to_remove, LAMBDA pre : startswith(s, pre))
    IN  IF k = 0 THEN s ELSE SubSeq(s, Len(prefixes_to_remove[k]) + 1, Len(s))

\* re.sub(r'[^A-Z0-9]', '', s)
only_alnum(s) == SelectSeq(s, LAMBDA c : c \in UpperLetters \cup Digits)

\* variant: the prefix is cut before the suffix
normalize_prefix_first(s) ==
    IF s = <<>> THEN s ELSE only_alnum(strip_suffix(strip_prefix(upper(s))))

\* variant: the final character filter is left out
normalize_no_filter(s) ==
    IF s = <<>> THEN s ELSE strip_prefix(strip_suffix(upper(s)))

normalize(s) ==
    IF s = <<>> THEN s ELSE only_alnum(strip_prefix(strip_suffix(upper(s))))

-----------------------------------------------------------------------------
(* fuzzy_map: difflib.get_close_matches over the upper-cased universe *)

Min(x, y) == IF x <= y THEN x ELSE y

\* code-point order of the characters that occur in symbols
AsciiOrder ==
    <<" ", "-", ".", "/", "0","1","2","3","4","5","6","7","8","9",
      "A","B","C","D","E","F","G","H","I","J","K","L","M",
      "N","O","P","Q","R","S","T","U","V","W","X","Y","Z", "_",
      "a","b","c","d","e","f","g","h","i","j","k","l","m",
      "n","o","p","q","r","s","t","u","v","w","x","y","z">>

ord(c) == CHOOSE i \in 1..Len(AsciiOrder) : AsciiOrder[i] = c

\* the Python comparison  x < y  of two strings
str_less(x, y) ==
    \E i \in 1..(Min(Len(x), Len(y)) + 1) :
        /\ \A j \in 1..(i - 1) : x[j] = y[j]
        /\ \/ i = Len(x) + 1 /\ i <= Len(y)
           \/ i <= Len(x) /\ i <= Len(y) /\ ord(x[i]) < ord(y[i])

\* SequenceMatcher.find_longest_match on a[alo:ahi], b[blo:bhi] (0-based, half
\* open): a longest common block, the earliest in a, then the earliest in b
find_longest_match(a, b, alo, ahi, blo, bhi) ==
    LET blocks == {t \in (alo..(ahi - 1)) \X (blo..(bhi - 1)) \X (1..Min(ahi - alo, bhi - blo)) :
                      /\ t[1] + t[3] <= ahi
                      /\ t[2] + t[3] <= bhi
                      /\ \A d \in 0..(t[3] - 1) : a[t[1] + d + 1] = b[t[2] + d + 1]}
        before(t, u) == \/ t[3] > u[3]
                        \/ t[3] = u[3] /\ t[1] < u[1]
                        \/ t[3] = u[3] /\ t[1] = u[1] /\ t[2] <= u[2]
    IN  Let(blocks, LAMBDA S : IF S = {} THEN <<alo, blo, 0>>
                               ELSE CHOOSE t \in S : \A u \in S : before(t, u))

\* SequenceMatcher.get_matching_blocks: total size of the matching blocks
RECURSIVE matching_size(_, _, _, _, _, _)
matching_size(a, b, alo, ahi, blo, bhi) ==
    Let(find_longest_match(a, b, alo, ahi, blo, bhi),
        LAMBDA m :
            IF m[3] = 0 THEN 0
            ELSE m[3]
                 + (IF alo < m[1] /\ blo < m[2]
                       THEN matching_size(a, b, alo, m[1], blo, m[2]) ELSE 0)
                 + (IF m[1] + m[3] < ahi /\ m[2] + m[3] < bhi
                       THEN matching_size(a, b, m[1] + m[3], ahi, m[2] + m[3], bhi) ELSE 0))

\* SequenceMatcher(None, x, word).ratio() = 2*M/T as the pair <<2*M, T>>
\* (<<1, 1>> for two empty strings)
ratio(x, word) ==
    IF Len(x) + Len(word) = 0 THEN <<1, 1>>
    ELSE <<2 * matching_size(x, word, 0, Len(x), 0, Len(word)), Len(x) + Len(word)>>

\* cutoff=0.6 as the fraction CutoffNum / CutoffDen
CutoffNum == 6
CutoffDen == 10
\* n=3: the number of close matches kept
CloseMatchesN == 3

\* variant: any overlap at all passes for a close match
reaches_cutoff_any(r) == r[1] > 0

\* score >= cutoff, the score being the pair <<2 * matches, total length>>
reaches_cutoff(r) == r[1] * CutoffDen >= CutoffNum * r[2]

\* heapq.nlargest(n, ...) over the possibilities idx with their scores: the n
\* best, ordered by (score, string) descending
RECURSIVE nlargest(_, _, _, _)
nlargest(n, idx, scores, possibilities) ==
    IF n = 0 \/ idx = {} THEN <<>>
    ELSE LET geq(i, j) ==
                 \/ scores[i][1] * scores[j][2] > scores[j][1] * scores[i][2]
                 \/ /\ scores[i][1] * scores[j][2] = scores[j][1] * scores[i][2]
                    /\ ~ str_less(possibilities[i], possibilities[j])
         IN  Let(CHOOSE i \in idx : \A j \in idx : geq(i, j),
                 LAMBDA top : <<possibilities[top]>>
                              \o nlargest(n - 1, idx \ {top}, scores, possibilities))

\* get_close_matches(word, possibilities, n=3, cutoff=0.6)
get_close_matches(word, possibilities) ==
    Let([i \in 1..Len(possibilities) |-> ratio(possibilities[i], word)],
        LAMBDA scores :
            nlargest(CloseMatchesN,
                     {i \in 1..Len(possibilities) : reaches_cutoff(scores[i])},
                     scores, possibilities))

NoMatch == [found |-> FALSE, name |-> <<>>]
Match(s) == [found |-> TRUE, name |-> s]

\* variant: the upper-cased match is returned, not the broker's own spelling
fuzzy_map_upper(symbol, universe) ==
    Let(get_close_matches(upper(symbol), [i \in 1..Len(universe) |-> upper(universe[i])]),
        LAMBDA matches : IF matches = <<>> THEN NoMatch ELSE Match(matches[1]))

fuzzy_map(symbol, universe) ==
    Let(get_close_matches(upper(symbol), [i \in 1..Len(universe) |-> upper(universe[i])]),
        LAMBDA matches :
            LET m == FirstIndex(matches,
                                LAMBDA x : \E i \in 1..Len(universe) : upper(universe[i]) = x)
            IN  IF m = 0 THEN NoMatch
                ELSE Match(universe[FirstIndex(universe, LAMBDA s : upper(s) = matches[m])]))

-----------------------------------------------------------------------------
(* Symbols, broker listings and broker metadata the operations are run on *)

EURUSD    == <<"E","U","R","U","S","D">>
eurusd    == <<"e","u","r","u","s","d">>
XAUUSD    == <<"X","A","U","U","S","D">>
XAUUSDm   == <<"X","A","U","U","S","D","m">>
BTCUSDpro == <<"B","T","C","U","S","D",".","p","r","o">>
GOLD      == <<"G","O","L","D">>
BTCUSD    == <<"B","T","C","U","S","D">>
XAUSD     == <<"X","A","U","S","D">>
XAU       == <<"X","A","U">>
USD       == <<"U","S","D">>
Blank     == <<" ">>
Empty     == <<>>

\* external symbols handed to resolve, submit and closePositions
ExtSymbols == {eurusd, XAUUSD, GOLD, Blank, Empty}

\* what mt5.symbols_get() can answer: a list of names, None, or an exception
Listing(names) == [names |-> names, kind |-> "names"]
ListingNone    == [names |-> <<>>, kind |-> "none"]
ListingRaise   == [names |-> <<>>, kind |-> "raise"]
ListingOutcomes ==
    { Listing(<<XAUUSDm, EURUSD, BTCUSDpro>>),
      Listing(<<XAUUSD, XAUUSDm, EURUSD>>),
      ListingNone, ListingRaise }

\* the fixtures the cascade is run on in detail: three universes and the
\* symbols that between them settle at every strategy
CascadeListings ==
    { Listing(<<XAUUSDm, EURUSD, BTCUSDpro>>),
      Listing(<<XAUUSD, XAUUSDm, EURUSD>>),
      Listing(<<GOLD>>) }
CascadeSymbols == {XAUUSD, eurusd, BTCUSD, GOLD, XAUSD, XAU, USD}

\* what mt5.symbol_info(s).description can be for the broker's symbols:
\* "plain": every symbol has an empty description; "gold": XAUUSDm is described
\* as "Gold vs US Dollar"; "raise": the metadata call raises
GoldDescription ==
    <<"G","o","l","d"," ","v","s"," ","U","S"," ","D","o","l","l","a","r">>
DescOutcomes == {"plain", "gold", "raise"}
description(d, s) == IF d = "gold" /\ s = XAUUSDm THEN GoldDescription ELSE <<>>

-----------------------------------------------------------------------------
(* description_match and transform_symbol *)

\* description_match: the universe entries are visited in order; each visit
\* is one symbol_info call.  Result: the match and the number of calls made.
description_match(symbol, universe, d) ==
    IF d = "raise"
    THEN [m |-> NoMatch, calls |-> Min(1, Len(universe))]
    ELSE LET hit(s) ==
                 LET desc == upper(description(d, s))
                 IN  /\ description(d, s) # <<>>
                     /\ \/ contains(desc, upper(symbol))
                        \/ contains(upper(symbol), desc)
             k == FirstIndex(universe, hit)
         IN  IF k = 0 THEN [m |-> NoMatch, calls |-> Len(universe)]
             ELSE [m |-> Match(universe[k]), calls |-> k]

Slashed(s) == SubSeq(s, 1, 3) \o <<"/">> \o SubSeq(s, 4, 6)
Pair(s) == <<Slashed(s), s, s \o <<"m">> >>
Keyed(s, name) == <<name, Slashed(s), s \o <<"m">> >>

\* the transformations dict: key -> variants
transformation_keys ==
    << <<"E","U","R","U","S","D">>, <<"G","B","P","U","S","D">>,
       <<"U","S","D","J","P","Y">>, <<"A","U","D","U","S","D">>,
       <<"U","S","D","C","A","D">>, <<"U","S","D","C","H","F">>,
       <<"N","Z","D","U","S","D">>, <<"X","A","U","U","S","D">>,
       <<"X","A","G","U","S","D">>, <<"B","T","C","U","S","D">>,
       <<"E","T","H","U","S","D">> >>

transformations(key) ==
    CASE key = <<"X","A","U","U","S","D">> -> Keyed(key, <<"G","O","L","D">>)
      [] key = <<"X","A","G","U","S","D">> -> Keyed(key, <<"S","I","L","V","E","R">>)
      [] key = <<"B","T","C","U","S","D">> -> Keyed(key, <<"B","i","t","c","o","i","n">>)
      [] key = <<"E","T","H","U","S","D">> -> Keyed(key, <<"E","t","h","e","r","e","u","m">>)
      [] OTHER -> Pair(key)

InList(s, universe) == \E i \in 1..Len(universe) : universe[i] = s

\* variant: the table is also entered through its aliases
transform_symbol_aliases(symbol, universe) ==
    LET k == FirstIndex(transformation_keys,
                        LAMBDA key : key = upper(symbol) \/ InList(symbol, transformations(key)))
        table == IF k = 0 THEN <<>> ELSE transformations(transformation_keys[k])
        t == FirstIndex(table, LAMBDA v : InList(v, universe))
        variations ==
            << symbol \o <<"m">>,
               symbol \o <<".","p","r","o">>,
               symbol \o <<"_","p","r","o">>,
               symbol \o <<".","m">>,
               symbol \o <<"_","m">>,
               remove_char(symbol, "/"),
               remove_char(symbol, "-"),
               remove_char(symbol, "_") >>
        v == FirstIndex(variations, LAMBDA x : InList(x, universe))
    IN  IF t # 0 THEN Match(table[t])
        ELSE IF v # 0 THEN Match(variations[v])
        ELSE NoMatch

\* transform_symbol: the table entry of the upper-cased symbol, then the variations
transform_symbol(symbol, universe) ==
    LET key == upper(symbol)
        table == IF InList(key, transformation_keys) THEN transformations(key) ELSE <<>>
        t == FirstIndex(table, LAMBDA v : InList(v, universe))
        variations ==
            << symbol \o <<"m">>,
               symbol \o <<".","p","r","o">>,
               symbol \o <<"_","p","r","o">>,
               symbol \o <<".","m">>,
               symbol \o <<"_","m">>,
               remove_char(symbol, "/"),
               remove_char(symbol, "-"),
               remove_char(symbol, "_") >>
        v == FirstIndex(variations, LAMBDA x : InList(x, universe))
    IN  IF t # 0 THEN Match(table[t])
        ELSE IF v # 0 THEN Match(variations[v])
        ELSE NoMatch

-----------------------------------------------------------------------------
(* map_symbol: the resolution cascade *)

\* _cache_broker_symbols: the universe after a refresh that got `listing`
\* from mt5.symbols_get(); None, an empty answer and an exception all give []
\* variant: a failed listing leaves the universe as it was
cached_broker_symbols_stale(listing) ==
    IF listing.kind = "names" THEN listing.names ELSE broker_symbols

cached_broker_symbols(listing) ==
    IF listing.kind = "names" THEN listing.names ELSE <<>>

\* Strategy 1: Exact match
exact_match(symbol, universe) ==
    IF InList(symbol, universe) THEN Match(symbol) ELSE NoMatch

\* variant: the case-insensitive strategy hands back its input
case_match_input(symbol, universe) ==
    IF \E i \in 1..Len(universe) : upper(universe[i]) = upper(symbol)
    THEN Match(symbol) ELSE NoMatch

\* Strategy 2: Case-insensitive match
case_match(symbol, universe) ==
    LET k == FirstIndex(universe, LAMBDA s : upper(s) = upper(symbol))
    IN  IF k = 0 THEN NoMatch ELSE Match(universe[k])

\* variant: the normalized strategy hands back its input
normalized_match_input(symbol, universe) ==
    IF \E i \in 1..Len(universe) : normalize(universe[i]) = normalize(symbol)
    THEN Match(symbol) ELSE NoMatch

\* Strategy 3: Normalized match
normalized_match(symbol, universe) ==
    LET k == FirstIndex(universe, LAMBDA s : normalize(s) = normalize(symbol))
    IN  IF k = 0 THEN NoMatch ELSE Match(universe[k])

\* variant: the startswith strategy hands back the last entry that matches
prefix_match_last(symbol, universe) ==
    LET S == {i \in 1..Len(universe) : startswith(upper(universe[i]), upper(symbol))}
    IN  IF S = {} THEN NoMatch
        ELSE Match(universe[CHOOSE i \in S : \A j \in S : j <= i])

\* Strategy 4: Startswith match
prefix_match(symbol, universe) ==
    LET k == FirstIndex(universe, LAMBDA s : startswith(upper(s), upper(symbol)))
    IN  IF k = 0 THEN NoMatch ELSE Match(universe[k])

\* Strategy 5: Contains match
contains_match(symbol, universe) ==
    LET k == FirstIndex(universe, LAMBDA s : contains(upper(s), upper(symbol)))
    IN  IF k = 0 THEN NoMatch ELSE Match(universe[k])

Outcome(name, strategy, ninfo) == [name |-> name, strategy |-> strategy, ninfo |-> ninfo]

\* Strategies 1 to 9 on a cache miss with a non-empty universe; d is what the
\* broker's metadata answers should description_match be reached
cascade(symbol, universe, d) ==
    LET s1 == exact_match(symbol, universe)
        s2 == case_match(symbol, universe)
        s3 == normalized_match(symbol, universe)
        s4 == prefix_match(symbol, universe)
        s5 == contains_match(symbol, universe)
        s6 == fuzzy_map(symbol, universe)
        s7 == description_match(symbol, universe, d)
        s8 == transform_symbol(symbol, universe)
    IN  IF s1.found THEN Outcome(s1.name, "exact", 0)
        ELSE IF s2.found THEN Outcome(s2.name, "case", 0)
        ELSE IF s3.found THEN Outcome(s3.name, "normalized", 0)
        ELSE IF s4.found THEN Outcome(s4.name, "prefix", 0)
        ELSE IF s5.found THEN Outcome(s5.name, "contains", 0)
        ELSE IF s6.found /\ s6.name # <<>> THEN Outcome(s6.name, "fuzzy", 0)
        ELSE IF s7.m.found /\ s7.m.name # <<>> THEN Outcome(s7.m.name, "description", s7.calls)
        ELSE IF s8.found /\ s8.name # <<>> /\ InList(s8.name, universe)
             THEN Outcome(s8.name, "transform", s7.calls)
        ELSE Outcome(symbol, "fallback", s7.calls)

\* the universes and keys the operations are run on, and the cascade's outcome
\* on each of them, evaluated once
Universes == {cached_broker_symbols(l) : l \in ListingOutcomes \cup CascadeListings} \ {<<>>}
Keys == {strip(s) : s \in ExtSymbols \cup CascadeSymbols}
cascade_table ==
    [u \in Universes, s \in Keys, d \in DescOutcomes |-> cascade(s, u, d)]

\* variant: the write is forgotten
store_nothing(cache, key, value) == cache

\* variant: the key is cached as itself
store_identity(cache, key, value) ==
    [k \in DOMAIN cache \cup {key} |-> IF k = key THEN key ELSE cache[k]]

\* dict assignment  cache[key] = value
store(cache, key, value) ==
    [k \in DOMAIN cache \cup {key} |-> IF k = key THEN value ELSE cache[k]]

\* the write  self.symbol_cache[symbol] = symbol  of the no-universe fallback
store_fallback(cache, key, value) == store(cache, key, value)

Resolution(ret, cache, universe, strategy, nlist, ninfo) ==
    [universe |-> universe, strategy |-> strategy, ninfo |-> ninfo,
     cache |-> cache, ret |-> ret, nlist |-> nlist]

\* map_symbol(symbol) in the current handler state; `listing` is the answer of
\* mt5.symbols_get() should the universe be refreshed, d the metadata outcome
map_symbol(symbol, listing, d) ==
    IF symbol = <<>>
    THEN Resolution(symbol, symbol_cache, broker_symbols, "rejected", 0, 0)
    ELSE Let(strip(symbol), LAMBDA key :
         IF key \in DOMAIN symbol_cache
         THEN Resolution(symbol_cache[key], symbol_cache, broker_symbols, "cache", 0, 0)
         ELSE Let(IF broker_symbols = <<>> THEN cached_broker_symbols(listing)
                  ELSE broker_symbols, LAMBDA universe :
              LET nlist == IF broker_symbols = <<>> THEN 1 ELSE 0
              IN  IF universe = <<>>
                  THEN Resolution(key, store_fallback(symbol_cache, key, key), universe,
                                  "no_universe", nlist, 0)
                  ELSE Let(cascade_memo[universe, key, d], LAMBDA o :
                           Resolution(o.name, store(symbol_cache, key, o.name), universe,
                                      o.strategy, nlist, o.ninfo))))

\* the broker answers a map_symbol call can depend on: a listing only when the
\* universe is refreshed, metadata only when the description strategy runs
ListingChoices(symbol, listings) ==
    IF symbol # <<>> /\ strip(symbol) \notin DOMAIN symbol_cache /\ broker_symbols = <<>>
    THEN listings ELSE {ListingNone}

DescChoices(symbol, listing) ==
    LET universe == IF broker_symbols = <<>> THEN cached_broker_symbols(listing)
                    ELSE broker_symbols
    IN  IF /\ symbol # <<>>
           /\ strip(symbol) \notin DOMAIN symbol_cache
           /\ universe # <<>>
           /\ cascade_memo[universe, strip(symbol), "plain"].ninfo > 0
        THEN DescOutcomes ELSE {"plain"}

-----------------------------------------------------------------------------
(* Observation of an operation: its inputs, its result, the calls it made *)

Quiet ==
    [name     |-> <<>>,     \* the symbol map_symbol returned
     strategy |-> "none",   \* how map_symbol settled ("none": it was not called)
     ninfo    |-> 0,        \* calls of symbol_info
     nlist    |-> 0,        \* calls of symbols_get
     op       |-> "none",   \* the operation
     sym      |-> <<>>,     \* the symbol it was given
     action   |-> "",       \* signal["action"]
     priced   |-> FALSE,    \* whether the signal carries a price
     price    |-> 0,        \* signal["price"] when it does
     ok       |-> FALSE,    \* the boolean result
     info     |-> "unasked",\* what verify_symbol's symbol_info call answered
     tick     |-> "unasked",\* what send_order's symbol_info_tick call answered
     answers  |-> <<>>,     \* what each order_send call answered
     sent     |-> <<>>,     \* the requests handed to order_send, in order
     fetch    |-> "unasked",\* what positions_get answered: "positions" or "raise"
     positions|-> <<>>,     \* the positions positions_get returned
     filter   |-> <<>>,     \* the symbol positions_get was asked for (<<>>: all)
     nselect  |-> 0,        \* calls of symbol_select
     ntick    |-> 0,        \* calls of symbol_info_tick
     npos     |-> 0,        \* calls of positions_get
     again    |-> FALSE,    \* a resolve right after a resolve of the same symbol
     raised   |-> {},       \* the functions in which a broker call raised
     escaped  |-> FALSE]    \* an exception left the operation

\* the functions whose broker calls sit inside a try block of their own
has_try_but_listing(fn) ==
    fn \in {"connect", "fuzzy_map", "description_match", "verify_symbol",
            "send_order", "close_positions", "get_symbol_info"}
has_try(fn) ==
    fn \in {"connect", "_cache_broker_symbols", "fuzzy_map", "description_match",
            "verify_symbol", "send_order", "close_positions", "get_symbol_info"}

\* the frames around map_symbol in a public operation, innermost first;
\* get_symbol_info calls map_symbol before its try block
Outer(op) ==
    CASE op = "submit" -> <<"send_order">>
      [] op = "close"  -> <<"close_positions">>
      [] op = "info"   -> <<"get_symbol_info_head">>
      [] OTHER         -> <<>>

\* the call stack of a broker call made in function fn during operation op
Stack(op, fn) ==
    CASE fn = "_cache_broker_symbols" ->
             IF op = "connect" THEN <<fn, "connect">>
             ELSE IF op = "refresh" THEN <<fn>>
             ELSE <<fn, "map_symbol">> \o Outer(op)
      [] fn = "description_match" -> <<fn, "map_symbol">> \o Outer(op)
      [] fn = "verify_symbol"     -> <<fn, "send_order">>
      [] OTHER                    -> <<fn>>

\* an exception raised in one of the functions `raised` reaches the caller of op
escapes(op, raised) ==
    \E fn \in raised : \A i \in 1..Len(Stack(op, fn)) : ~ has_try(Stack(op, fn)[i])

\* the functions in which a broker call raised during a map_symbol call
mapped_raises(r, listing, d) ==
    (IF r.nlist = 1 /\ listing.kind = "raise" THEN {"_cache_broker_symbols"} ELSE {})
    \cup (IF r.ninfo > 0 /\ d = "raise" THEN {"description_match"} ELSE {})

\* the observation o of operation op completed with what raised in it
Faults(o, raised) == [o EXCEPT !.raised = raised, !.escaped = escapes(o.op, raised)]

Flip == turn' = 1 - turn

\* the request threads of the server, each with its locals
Threads == {"t1", "t2"}
Locals == [name |-> <<>>, ret |-> <<>>, sym |-> <<>>, ok |-> FALSE,
           seen |-> <<>>, done |-> FALSE]
AllIdle ==
    /\ pc = [t \in Threads |-> "idle"]
    /\ tl = [t \in Threads |-> Locals]

Experiment == UNCHANGED <<nArg, nRes, cascade_memo, pc, tl>>

-----------------------------------------------------------------------------
(* connect, disconnect, _cache_broker_symbols, clear_symbol_cache, map_symbol *)

\* connect(): initialize and login may fail or raise; on success the flag is
\* set and the universe is refreshed.  `listings`: what symbols_get can answer
Connect(listings) ==
    \E link \in {"ok", "init_fail", "login_fail", "raise"} :
      \E listing \in (IF link = "ok" THEN listings ELSE {ListingNone}) :
        /\ connected' = (IF link = "ok" THEN TRUE ELSE connected)
        /\ broker_symbols' = (IF link = "ok" THEN cached_broker_symbols(listing)
                              ELSE broker_symbols)
        /\ last' = Faults([Quiet EXCEPT !.op = "connect", !.ok = (link = "ok"),
                                        !.nlist = IF link = "ok" THEN 1 ELSE 0],
                           (IF link = "raise" THEN {"connect"} ELSE {})
                           \cup (IF listing.kind = "raise" THEN {"_cache_broker_symbols"}
                                 ELSE {}))
        /\ Flip /\ Experiment
        /\ UNCHANGED symbol_cache

\* disconnect()
Disconnect ==
    /\ connected' = FALSE
    /\ broker_symbols' = <<>>
    /\ last' = [Quiet EXCEPT !.op = "disconnect"]
    /\ Flip /\ Experiment
    /\ UNCHANGED symbol_cache

\* disconnect() when mt5.shutdown() raises: nothing is assigned and the
\* exception reaches the caller
DisconnectFails ==
    /\ last' = Faults([Quiet EXCEPT !.op = "disconnect"], {"disconnect"})
    /\ Flip /\ Experiment
    /\ UNCHANGED <<connected, symbol_cache, broker_symbols>>

\* _cache_broker_symbols() on its own
Refresh(listings) ==
    \E listing \in listings :
        /\ broker_symbols' = cached_broker_symbols(listing)
        /\ last' = Faults([Quiet EXCEPT !.op = "refresh", !.nlist = 1],
                           IF listing.kind = "raise" THEN {"_cache_broker_symbols"} ELSE {})
        /\ Flip /\ Experiment
        /\ UNCHANGED <<connected, symbol_cache>>

\* clear_symbol_cache()
Clear ==
    /\ symbol_cache' = [k \in {} |-> <<>>]
    /\ last' = [Quiet EXCEPT !.op = "clear"]
    /\ Flip /\ Experiment
    /\ UNCHANGED <<connected, broker_symbols>>

\* map_symbol(symbol) called as the public resolve operation
Resolve(symbols, listings) ==
    \E symbol \in symbols :
      \E listing \in ListingChoices(symbol, listings) :
        \E d \in DescChoices(symbol, listing) :
          \E r \in {map_symbol(symbol, listing, d)} :
              /\ symbol_cache' = r.cache
              /\ broker_symbols' = r.universe
              /\ last' = Faults([Quiet EXCEPT !.op = "resolve", !.sym = symbol,
                                       !.name = r.ret,
                                       !.strategy = r.strategy, !.nlist = r.nlist,
                                       !.ninfo = r.ninfo,
                                       !.again = (last.op = "resolve" /\ last.sym = symbol)],
                                 mapped_raises(r, listing, d))
              /\ Flip /\ Experiment
              /\ UNCHANGED connected

-----------------------------------------------------------------------------
(* get_symbol_info *)

\* get_symbol_info(symbol): map_symbol, then symbol_info inside a try block;
\* the result is a dict when the metadata is there, None otherwise
get_symbol_info(symbol, listing, d, info) ==
    Let(map_symbol(symbol, listing, d), LAMBDA r :
        [universe |-> r.universe, cache |-> r.cache,
         obs |-> Faults([Quiet EXCEPT !.op = "info", !.sym = symbol, !.name = r.ret,
                                      !.strategy = r.strategy, !.nlist = r.nlist,
                                      !.ninfo = r.ninfo + 1, !.info = info,
                                      !.ok = (info \notin {"absent", "raise"})],
                        mapped_raises(r, listing, d)
                        \cup (IF info = "raise" THEN {"get_symbol_info"} ELSE {}))])

GetInfo(symbols, infos, listings) ==
    \E symbol \in symbols :
      \E listing \in ListingChoices(symbol, listings) :
        \E d \in DescChoices(symbol, listing) :
          \E info \in infos :
            \E g \in {get_symbol_info(symbol, listing, d, info)} :
                /\ symbol_cache' = g.cache
                /\ broker_symbols' = g.universe
                /\ last' = g.obs
                /\ Flip /\ Experiment
                /\ UNCHANGED connected

-----------------------------------------------------------------------------
(* send_order and verify_symbol *)

Actions ==
    {"BUY", "Long", "SELL", "Short", "BUY_LIMIT", "SELL_LIMIT", "BUY_STOP", "SELL_STOP",
     "SCALE_IN", "CLOSE"}

\* signal.get("price", 0.0): absent, or one of these numbers
NoPrice == [priced |-> FALSE, price |-> 0]
Priced(x) == [priced |-> TRUE, price |-> x]
Prices == {NoPrice, Priced(-1), Priced(0), Priced(15)}
\* the signals send_order is run on in detail: every action without a price,
\* and the four kinds of order type with every price
Signals ==
    [symbol : {XAUUSD}, action : Actions, p : {NoPrice}]
    \cup [symbol : {XAUUSD}, action : {"BUY", "SELL", "BUY_LIMIT", "SELL_STOP"}, p : Prices]

\* the tick mt5.symbol_info_tick returns when it returns one
Tick == [bid |-> 10, ask |-> 12]

\* what the broker's symbol_info / symbol_select answer to verify_symbol
InfoOutcomes == {"absent", "raise", "visible", "hidden_selected", "hidden_refused"}
\* what order_send answers: a result with a retcode, None, or an exception
SendOutcomes == {"DONE", "DONE_PARTIAL", "none", "raise"}

\* the if/elif ladder from action to order type; "none" is the else branch
order_type_else_buy(action) ==
    CASE action = "SELL" \/ action = "Short" -> "ORDER_TYPE_SELL"
      [] action = "BUY_LIMIT"                -> "ORDER_TYPE_BUY_LIMIT"
      [] action = "SELL_LIMIT"               -> "ORDER_TYPE_SELL_LIMIT"
      [] action = "BUY_STOP"                 -> "ORDER_TYPE_BUY_STOP"
      [] action = "SELL_STOP"                -> "ORDER_TYPE_SELL_STOP"
      [] OTHER                               -> "ORDER_TYPE_BUY"
order_type(action) ==
    CASE action = "BUY" \/ action = "Long"   -> "ORDER_TYPE_BUY"
      [] action = "SELL" \/ action = "Short" -> "ORDER_TYPE_SELL"
      [] action = "BUY_LIMIT"                -> "ORDER_TYPE_BUY_LIMIT"
      [] action = "SELL_LIMIT"               -> "ORDER_TYPE_SELL_LIMIT"
      [] action = "BUY_STOP"                 -> "ORDER_TYPE_BUY_STOP"
      [] action = "SELL_STOP"                -> "ORDER_TYPE_SELL_STOP"
      [] OTHER                               -> "none"

\* verify_symbol: TRUE when metadata is there and the symbol is, or was made, visible
\* variant: a refused activation is not checked
verify_symbol_lenient(info) == info \notin {"absent", "raise"}
verify_symbol(info) == info \in {"visible", "hidden_selected"}

\* the price of the request: the signal's when positive, else ask for a market
\* buy and bid for everything else
request_price_bid(type, price) == IF price > 0 THEN price ELSE Tick.bid
request_price(type, price) ==
    IF price > 0 THEN price
    ELSE IF type = "ORDER_TYPE_BUY" THEN Tick.ask ELSE Tick.bid

\* whether send_order fetches a tick
needs_tick(price) == price <= 0

\* the retcode test: success only for TRADE_RETCODE_DONE
order_done_never(answer) == FALSE
order_done_or_partial(answer) == answer \in {"DONE", "DONE_PARTIAL"}
order_done(answer) == answer = "DONE"

Request(kind, symbol, type, price, ticket, volume) ==
    [symbol |-> symbol, action |-> kind, price |-> price, type |-> type,
     volume |-> volume, position |-> ticket]

\* how often send_order hands its request to order_send: once, whatever the
\* answer
submissions_retried(answer) == IF answer = "DONE" THEN 1 ELSE 2
submissions(answer) == 1

\* the guard send_order opens with
not_connected_never == FALSE
not_connected == ~ connected

\* send_order(signal).  listing, d: the broker's answers to map_symbol; info: to
\* verify_symbol; tick: "tick" or "none"; answer: to order_send
send_order(symbol, action, p, listing, d, info, tick, answer) ==
    IF not_connected
    THEN [universe |-> broker_symbols, cache |-> symbol_cache,
          obs |-> [Quiet EXCEPT !.op = "submit", !.sym = symbol, !.action = action,
                                !.priced = p.priced, !.price = p.price]]
    ELSE
    Let(map_symbol(symbol, listing, d), LAMBDA r :
    Let([Quiet EXCEPT !.op = "submit", !.sym = symbol, !.action = action,
                      !.priced = p.priced, !.price = p.price,
                      !.name = r.ret, !.strategy = r.strategy,
                      !.nlist = r.nlist, !.ninfo = r.ninfo + 1, !.info = info,
                      !.nselect = IF info \in {"hidden_selected", "hidden_refused"}
                                  THEN 1 ELSE 0], LAMBDA base :
    LET price == IF p.priced THEN p.price ELSE 0
        type  == order_type(action)
        obs   == IF ~ verify_symbol(info) THEN base
                 ELSE IF type = "none" THEN base
                 ELSE IF needs_tick(price) /\ tick \in {"none", "raise"}
                      THEN [base EXCEPT !.tick = tick, !.ntick = 1]
                 ELSE [base EXCEPT
                         !.tick    = IF needs_tick(price) THEN "tick" ELSE "unasked",
                         !.ntick   = IF needs_tick(price) THEN 1 ELSE 0,
                         !.sent    = [i \in 1..submissions(answer) |->
                                        Request(IF type \in {"ORDER_TYPE_BUY", "ORDER_TYPE_SELL"}
                                                THEN "TRADE_ACTION_DEAL"
                                                ELSE "TRADE_ACTION_PENDING",
                                                r.ret, type, request_price(type, price), 0, 0)],
                         !.answers = [i \in 1..submissions(answer) |-> answer],
                         !.ok      = order_done(answer)]
        raised == mapped_raises(r, listing, d)
                  \cup (IF info = "raise" THEN {"verify_symbol"} ELSE {})
                  \cup (IF tick = "raise" \/ answer = "raise" THEN {"send_order"} ELSE {})
    IN  [universe |-> r.universe, cache |-> r.cache, obs |-> Faults(obs, raised)]))

\* the broker answers a send_order call can depend on
TickChoices(action, p, info) ==
    IF /\ verify_symbol(info)
       /\ order_type(action) # "none"
       /\ needs_tick(IF p.priced THEN p.price ELSE 0)
    THEN {"tick", "none", "raise"} ELSE {"unasked"}
SendChoices(action, info, tick) ==
    IF verify_symbol(info) /\ order_type(action) # "none" /\ tick \notin {"none", "raise"}
    THEN SendOutcomes ELSE {"unsent"}

\* send_order(signal), the signal drawn from `signals`, the broker's metadata
\* answer from `infos` and its listings from `listings`
Submit(signals, infos, listings) ==
    \E sig \in signals :
      \E listing \in (IF not_connected THEN {ListingNone}
                      ELSE ListingChoices(sig.symbol, listings)) :
             \E d \in DescChoices(sig.symbol, listing) :
               \E info \in (IF not_connected THEN {"unasked"} ELSE infos) :
                 \E tick \in TickChoices(sig.action, sig.p, info) :
                   \E answer \in SendChoices(sig.action, info, tick) :
                     \E s \in {send_order(sig.symbol, sig.action, sig.p,
                                         listing, d, info, tick, answer)} :
                         /\ symbol_cache' = s.cache
                         /\ broker_symbols' = s.universe
                         /\ last' = s.obs
                         /\ Flip /\ Experiment
                         /\ UNCHANGED connected

-----------------------------------------------------------------------------
(* close_positions *)

\* the open positions the broker can report: position i of a list has ticket i,
\* a long EURUSD position when i is odd and a short XAUUSDm position when even
Position(i) ==
    IF i % 2 = 1
    THEN [symbol |-> EURUSD,  type |-> "ORDER_TYPE_BUY",  ticket |-> i, volume |-> 1]
    ELSE [symbol |-> XAUUSDm, type |-> "ORDER_TYPE_SELL", ticket |-> i, volume |-> 2]
PositionLists(maxpos) == { [i \in 1..n |-> Position(i)] : n \in 0..maxpos }

\* the positions of `list` the broker reports when asked for one symbol
Held(list, filter) ==
    IF filter = <<>> THEN list ELSE SelectSeq(list, LAMBDA pos : pos.symbol = filter)

\* what positions_get answers: a list (None counts as the empty list) or an exception
Fetched(list) == [kind |-> "positions", list |-> list]
FetchRaise    == [kind |-> "raise", list |-> <<>>]

\* how closing one position goes: the tick is missing or its call raises, or
\* order_send answers a retcode or None, or raises
CloseOutcomes == {"DONE", "REJECT", "no_tick", "tick_raise", "none", "send_raise"}

\* variant: the closing request takes the position's own side
close_request_same_side(pos) ==
    Request("TRADE_ACTION_DEAL", pos.symbol, pos.type,
            IF pos.type = "ORDER_TYPE_SELL" THEN Tick.bid ELSE Tick.ask,
            pos.ticket, pos.volume)

\* the closing request for one position
close_request(pos) ==
    LET type == IF pos.type = "ORDER_TYPE_BUY" THEN "ORDER_TYPE_SELL" ELSE "ORDER_TYPE_BUY"
    IN  Request("TRADE_ACTION_DEAL", pos.symbol, type,
                IF type = "ORDER_TYPE_SELL" THEN Tick.bid ELSE Tick.ask,
                pos.ticket, pos.volume)

\* whether the body of the for loop raises on this outcome: tick.bid of a
\* missing tick, result.retcode of a missing result
loop_raises(outcome) == outcome \in {"no_tick", "tick_raise", "none", "send_raise"}

\* what close_positions returns when there is nothing to close
NoPositionsIsAnError == FALSE
NoPositionsResult == TRUE

\* close_positions(symbol); Empty stands for no symbol filter
close_positions(symbol, listing, d, fetched, outcomes) ==
    Let(IF symbol # <<>> THEN map_symbol(symbol, listing, d)
        ELSE Resolution(symbol, symbol_cache, broker_symbols, "none", 0, 0), LAMBDA r :
    Let(FirstIndex(outcomes, loop_raises), LAMBDA stop :
    LET n     == Len(fetched.list)
        tried == IF stop = 0 THEN n ELSE stop
        nsent == IF stop # 0 /\ outcomes[stop] \in {"no_tick", "tick_raise"}
                 THEN stop - 1 ELSE tried
        base  == [Quiet EXCEPT !.op = "close", !.sym = symbol, !.name = r.ret,
                               !.strategy = r.strategy, !.nlist = r.nlist,
                               !.ninfo = r.ninfo, !.npos = 1, !.filter = r.ret]
        obs   == IF fetched.kind = "raise" THEN [base EXCEPT !.fetch = "raise"]
                 ELSE IF n = 0
                      THEN [base EXCEPT !.fetch = "positions", !.ok = NoPositionsResult]
                 ELSE [base EXCEPT
                         !.fetch     = "positions",
                         !.positions = fetched.list,
                         !.ntick     = tried,
                         !.sent      = [i \in 1..nsent |-> close_request(fetched.list[i])],
                         !.answers   = [i \in 1..nsent |-> outcomes[i]],
                         !.ok        = (stop = 0)]
        raised == (IF symbol # <<>> THEN mapped_raises(r, listing, d) ELSE {})
                  \cup (IF \/ fetched.kind = "raise"
                           \/ /\ n > 0 /\ stop # 0
                              /\ outcomes[stop] \in {"tick_raise", "send_raise"}
                        THEN {"close_positions"} ELSE {})
    IN  [universe |-> r.universe, cache |-> r.cache, obs |-> Faults(obs, raised)]))

\* the per-position outcomes that matter: nothing after the one that ends the loop
OutcomeChoices(n) ==
    { o \in [1..n -> CloseOutcomes] :
        \A i \in 1..n : loop_raises(o[i]) => \A j \in (i + 1)..n : o[j] = "DONE" }

\* the symbol close_positions asks positions_get for: the resolved one
close_filter(symbol, listing, d) ==
    IF symbol # <<>> THEN map_symbol(symbol, listing, d).ret ELSE <<>>

\* close_positions(symbol), the symbol drawn from `symbols`, the broker
\* holding at most maxpos positions and reporting those of the symbol asked for
Close(symbols, maxpos, listings) ==
    \E symbol \in symbols :
      \E listing \in ListingChoices(symbol, listings) :
        \E d \in DescChoices(symbol, listing) :
          \E fetched \in {FetchRaise}
                \cup {Fetched(Held(l, close_filter(symbol, listing, d))) :
                         l \in PositionLists(maxpos)} :
            \E outcomes \in OutcomeChoices(Len(fetched.list)) :
              \E c \in {close_positions(symbol, listing, d, fetched, outcomes)} :
                  /\ symbol_cache' = c.cache
                  /\ broker_symbols' = c.universe
                  /\ last' = c.obs
                  /\ Flip /\ Experiment
                  /\ UNCHANGED connected

-----------------------------------------------------------------------------
(* Concurrent requests.  The server is run with threaded=True: every request
   is handled in a thread of its own, all of them on the one MT5Handler, and
   nothing in the server or the handler takes a lock.  A thread is switched
   between any two statements, so the steps below are the handler's code
   between two of its broker calls or two of its reads of shared state. *)

Observed == UNCHANGED <<last, turn, nArg, nRes, cascade_memo>>

\* thread t moves to position `at` with its locals become `locals`
Goto(t, at, locals) ==
    /\ pc' = [pc EXCEPT ![t] = at]
    /\ tl' = [tl EXCEPT ![t] = locals]

\* send_order up to verify_symbol: the connection guard and map_symbol
SendBegin(t, symbols, listings) ==
    /\ pc[t] = "idle"
    /\ \E symbol \in symbols :
         IF not_connected
         THEN /\ Goto(t, "idle", [Locals EXCEPT !.sym = symbol, !.done = TRUE])
              /\ UNCHANGED <<symbol_cache, broker_symbols>>
         ELSE \E listing \in ListingChoices(symbol, listings) :
                \E d \in DescChoices(symbol, listing) :
                  \E r \in {map_symbol(symbol, listing, d)} :
                    /\ symbol_cache' = r.cache
                    /\ broker_symbols' = r.universe
                    /\ Goto(t, "mapped", [Locals EXCEPT !.sym = symbol, !.name = r.ret])
    /\ Observed /\ UNCHANGED connected

\* verify_symbol(mapped_symbol): mt5.symbol_info, and symbol_select if hidden
SendVerify(t, infos) ==
    /\ pc[t] = "mapped"
    /\ \E info \in infos :
         IF verify_symbol(info)
         THEN Goto(t, "verified", tl[t])
         ELSE Goto(t, "idle", [tl[t] EXCEPT !.done = TRUE])
    /\ Observed /\ UNCHANGED <<connected, symbol_cache, broker_symbols>>

\* mt5.symbol_info_tick(mapped_symbol) of a market order
SendTick(t) ==
    /\ pc[t] = "verified"
    /\ \E tick \in {"tick", "none"} :
         IF tick = "tick"
         THEN Goto(t, "priced", tl[t])
         ELSE Goto(t, "idle", [tl[t] EXCEPT !.done = TRUE])
    /\ Observed /\ UNCHANGED <<connected, symbol_cache, broker_symbols>>

\* mt5.order_send(request) and the retcode test
SendOrder(t) ==
    /\ pc[t] = "priced"
    /\ \E answer \in {"DONE", "REJECT"} :
         Goto(t, "idle", [tl[t] EXCEPT !.done = TRUE, !.ok = order_done(answer)])
    /\ Observed /\ UNCHANGED <<connected, symbol_cache, broker_symbols>>

\* close_positions(symbol) up to positions_get: map_symbol
CloseBegin(t, symbols, listings) ==
    /\ pc[t] = "idle"
    /\ \E symbol \in symbols :
         \E listing \in ListingChoices(symbol, listings) :
           \E d \in DescChoices(symbol, listing) :
             \E r \in {map_symbol(symbol, listing, d)} :
               /\ symbol_cache' = r.cache
               /\ broker_symbols' = r.universe
               /\ Goto(t, "closing", [Locals EXCEPT !.sym = symbol, !.name = r.ret])
    /\ Observed /\ UNCHANGED connected

\* mt5.positions_get(symbol=symbol): nothing to close, or one position
CloseFetch(t) ==
    /\ pc[t] = "closing"
    /\ \E n \in {0, 1} :
         IF n = 0
         THEN Goto(t, "idle", [tl[t] EXCEPT !.done = TRUE, !.ok = NoPositionsResult])
         ELSE Goto(t, "fetched", tl[t])
    /\ Observed /\ UNCHANGED <<connected, symbol_cache, broker_symbols>>

\* mt5.symbol_info_tick(pos.symbol) of the position
CloseTick(t) ==
    /\ pc[t] = "fetched"
    /\ \E tick \in {"tick", "none"} :
         IF tick = "tick"
         THEN Goto(t, "quoted", tl[t])
         ELSE Goto(t, "idle", [tl[t] EXCEPT !.done = TRUE])
    /\ Observed /\ UNCHANGED <<connected, symbol_cache, broker_symbols>>

\* mt5.order_send(request) of the position, the last of the loop
CloseOrder(t) ==
    /\ pc[t] = "quoted"
    /\ Goto(t, "idle", [tl[t] EXCEPT !.done = TRUE, !.ok = TRUE])
    /\ Observed /\ UNCHANGED <<connected, symbol_cache, broker_symbols>>

\* map_symbol(symbol) of thread t up to the refresh: the empty-input guard,
\* strip, the cache lookup and the test of the universe
MapBegin(t, symbols) ==
    /\ pc[t] = "idle"
    /\ \E symbol \in symbols \ {<<>>} :
         \E key \in {strip(symbol)} :
           IF key \in DOMAIN symbol_cache
           THEN Goto(t, "idle", [Locals EXCEPT !.sym = key, !.ret = symbol_cache[key],
                                              !.done = TRUE])
           ELSE Goto(t, IF broker_symbols = <<>> THEN "refresh" ELSE "check",
                     [Locals EXCEPT !.sym = key])
    /\ Observed /\ UNCHANGED <<connected, symbol_cache, broker_symbols>>

\* _cache_broker_symbols() called by map_symbol for the universe it saw empty
MapRefresh(t, listings) ==
    /\ pc[t] = "refresh"
    /\ \E listing \in listings : broker_symbols' = cached_broker_symbols(listing)
    /\ Goto(t, "check", tl[t])
    /\ Observed /\ UNCHANGED <<connected, symbol_cache>>

\* the second test of the universe: none, and the symbol is cached as itself;
\* `seen` remembers the universe the strategies start with
MapCheck(t) ==
    /\ pc[t] = "check"
    /\ IF broker_symbols = <<>>
       THEN /\ symbol_cache' = store_fallback(symbol_cache, tl[t].sym, tl[t].sym)
            /\ Goto(t, "idle", [tl[t] EXCEPT !.ret = tl[t].sym, !.done = TRUE])
       ELSE /\ symbol_cache' = symbol_cache
            /\ Goto(t, "exact", [tl[t] EXCEPT !.seen = broker_symbols])
    /\ Observed /\ UNCHANGED <<connected, broker_symbols>>

Strategies ==
    <<"exact", "case", "normalized", "prefix", "contains", "fuzzy", "description",
      "transform">>

\* what strategy k finds in the universe as it is when the strategy runs
strategy_match(k, symbol, universe) ==
    CASE k = 1 -> exact_match(symbol, universe)
      [] k = 2 -> case_match(symbol, universe)
      [] k = 3 -> normalized_match(symbol, universe)
      [] k = 4 -> prefix_match(symbol, universe)
      [] k = 5 -> contains_match(symbol, universe)
      [] k = 6 -> fuzzy_map(symbol, universe)
      [] k = 7 -> description_match(symbol, universe, "plain").m
      [] OTHER -> Let(transform_symbol(symbol, universe), LAMBDA m :
                      IF m.found /\ InList(m.name, universe) THEN m ELSE NoMatch)

\* one strategy of the cascade, reading self.broker_symbols afresh; a match is
\* cached and returned, the last strategy's miss caches the symbol as itself
MapStrategy(t) ==
    \E k \in 1..Len(Strategies) :
      /\ pc[t] = Strategies[k]
      /\ \E m \in {strategy_match(k, tl[t].sym, broker_symbols)} :
           IF m.found /\ m.name # <<>>
           THEN /\ symbol_cache' = store(symbol_cache, tl[t].sym, m.name)
                /\ Goto(t, "idle", [tl[t] EXCEPT !.ret = m.name, !.done = TRUE])
           ELSE IF k < Len(Strategies)
           THEN /\ symbol_cache' = symbol_cache
                /\ Goto(t, Strategies[k + 1], tl[t])
           ELSE /\ symbol_cache' = store_fallback(symbol_cache, tl[t].sym, tl[t].sym)
                /\ Goto(t, "idle", [tl[t] EXCEPT !.ret = tl[t].sym, !.done = TRUE])
      /\ Observed /\ UNCHANGED <<connected, broker_symbols>>

-----------------------------------------------------------------------------
(* The normalisation experiment: normalize applied twice to a string *)

NormTokens ==
    { <<"M">>, <<"P">>, <<"R">>, <<"O">>, <<"m">>, <<"X">>, <<"5">>,
      <<".">>, <<"-">>, <<"_">>,
      <<"P","R","O">>, <<"F","X","_">>, <<"M","T","5","_">> }

RECURSIVE Concat(_)
Concat(parts) == IF parts = <<>> THEN <<>> ELSE Head(parts) \o Concat(Tail(parts))

\* the strings made of at most MaxNormLen tokens
NormInputs ==
    UNION { {Concat(parts) : parts \in [1..n -> NormTokens]} : n \in 0..MaxNormLen }

NormInit ==
    /\ connected = FALSE
    /\ symbol_cache = [k \in {} |-> <<>>]
    /\ broker_symbols = <<>>
    /\ last = Quiet
    /\ turn = 0
    /\ nArg \in NormInputs
    /\ nRes = <<>>
    /\ cascade_memo = <<>>
    /\ AllIdle

\* one more application of normalize: to the argument, then to the result
Normalize ==
    /\ Len(nRes) < 2
    /\ nRes' = Append(nRes, normalize(IF nRes = <<>> THEN nArg ELSE nRes[Len(nRes)]))
    /\ UNCHANGED <<connected, symbol_cache, broker_symbols, last, turn, nArg, cascade_memo,
                   pc, tl>>

NormNext == Normalize

SpecNorm == NormInit /\ [][NormNext]_vars

-----------------------------------------------------------------------------
(* The specification of the handler *)

Init ==
    /\ connected = FALSE
    /\ symbol_cache = [k \in {} |-> <<>>]
    /\ broker_symbols = <<>>
    /\ last = Quiet
    /\ turn = 0
    /\ nArg = <<>>
    /\ nRes = <<>>
    /\ cascade_memo = cascade_table
    /\ AllIdle

\* the listings of the one-universe broker the translator is run against
OneListing == {Listing(<<XAUUSDm, EURUSD, BTCUSDpro>>), ListingNone}

Next ==
    \/ Connect(ListingOutcomes)
    \/ Disconnect
    \/ Refresh(ListingOutcomes)
    \/ Clear
    \/ Resolve(ExtSymbols, ListingOutcomes)
    \/ Submit([symbol : {XAUUSD}, action : {"BUY"}, p : {NoPrice}], {"absent"}, ListingOutcomes)
    \/ Close({eurusd}, 0, ListingOutcomes)

Spec == Init /\ [][Next]_vars

\* The cascade in detail: a session that starts connected to one of the
\* fixture universes, with an empty cache
CascadeInit ==
    /\ connected = TRUE
    /\ symbol_cache = [k \in {} |-> <<>>]
    /\ broker_symbols \in {cached_broker_symbols(l) : l \in CascadeListings}
    /\ last = Quiet
    /\ turn = 0
    /\ nArg = <<>>
    /\ nRes = <<>>
    /\ cascade_memo = cascade_table
    /\ AllIdle

CascadeNext ==
    \/ Resolve(CascadeSymbols, CascadeListings)
    \/ Clear

SpecCascade == CascadeInit /\ [][CascadeNext]_vars

\* The operations against a broker whose calls raise
FaultyListings == {Listing(<<XAUUSDm, EURUSD, BTCUSDpro>>), ListingRaise}
FaultsNext ==
    \/ Connect(FaultyListings)
    \/ Disconnect
    \/ DisconnectFails
    \/ Refresh(FaultyListings)
    \/ Resolve({GOLD}, FaultyListings)
    \/ GetInfo({GOLD}, {"absent", "raise", "visible"}, FaultyListings)
    \/ Submit([symbol : {GOLD}, action : {"BUY"}, p : {NoPrice}], InfoOutcomes, FaultyListings)
    \/ Close({Empty, GOLD}, 1, FaultyListings)

SpecFaults == Init /\ [][FaultsNext]_vars

\* The webhook under concurrent delivery: requests of two threads, each a
\* market order or a close, against one connection
WebNext ==
    \/ Connect(OneListing)
    \/ Disconnect
    \/ \E t \in Threads : SendBegin(t, {XAUUSD}, OneListing)
    \/ \E t \in Threads : SendVerify(t, {"absent", "visible"})
    \/ \E t \in Threads : SendTick(t)
    \/ \E t \in Threads : SendOrder(t)
    \/ \E t \in Threads : CloseBegin(t, {XAUUSD}, OneListing)
    \/ \E t \in Threads : CloseFetch(t)
    \/ \E t \in Threads : CloseTick(t)
    \/ \E t \in Threads : CloseOrder(t)

SpecWeb == Init /\ [][WebNext]_vars

\* Resolutions of two request threads on a handler whose universe is still to
\* be listed
MapNext ==
    \/ \E t \in Threads : MapBegin(t, {XAUUSD, eurusd})
    \/ \E t \in Threads : MapRefresh(t, OneListing)
    \/ \E t \in Threads : MapCheck(t)
    \/ \E t \in Threads : MapStrategy(t)

SpecMap == Init /\ [][MapNext]_vars

\* The order translator in detail, on one symbol
SubmitNext ==
    \/ Connect(OneListing)
    \/ Disconnect
    \/ Submit(Signals, {"visible"}, OneListing)
    \/ Submit([symbol : {XAUUSD}, action : {"BUY", "CLOSE"}, p : {NoPrice, Priced(15)}],
              InfoOutcomes, OneListing)

SpecSubmit == Init /\ [][SubmitNext]_vars

\* close_positions in detail
CloseNext ==
    \/ Connect(OneListing)
    \/ Disconnect
    \/ Close({Empty, XAUUSD}, MaxPositions, OneListing)

SpecClose == Init /\ [][CloseNext]_vars

\* the calls that hand orders to the broker, side by side
OrdersNext ==
    \/ Connect(OneListing)
    \/ Disconnect
    \/ Submit([symbol : {XAUUSD}, action : {"BUY"}, p : {NoPrice, Priced(15)}],
              {"visible"}, OneListing)
    \/ Submit([symbol : {Blank}, action : {"BUY"}, p : {NoPrice}], {"visible"}, OneListing)
    \/ Close({Empty}, MaxPositions, OneListing)

SpecOrders == Init /\ [][OrdersNext]_vars

-----------------------------------------------------------------------------
(* The order translator: send_order *)

RecognizedActions ==
    {"BUY", "Long", "SELL", "Short", "BUY_LIMIT", "SELL_LIMIT", "BUY_STOP", "SELL_STOP"}

NoBrokerCall(o) ==
    /\ o.nlist = 0 /\ o.ninfo = 0 /\ o.nselect = 0 /\ o.ntick = 0 /\ o.npos = 0
    /\ o.sent = <<>>

\* C1: send_order with an action outside the recognized set returns failure and
\* hands nothing to order_send, whatever the signal and the handler's state.
C1_UnsupportedActionFails ==
    (last.op = "submit" /\ last.action \notin RecognizedActions)
        => (~ last.ok /\ last.sent = <<>>)

\* an unsupported action reached the ladder: the symbol was verified
C1_Witness ==
    /\ last.op = "submit" /\ last.action = "SCALE_IN"
    /\ last.info = "visible" /\ ~ last.ok /\ last.sent = <<>>

\* C2: send_order while not connected returns failure, makes no broker call of
\* any kind and leaves the cache and the universe as they were.
C2_NotConnectedNoEffect ==
    [][(last'.op = "submit" /\ turn' # turn /\ ~ connected)
          => /\ ~ last'.ok
             /\ NoBrokerCall(last')
             /\ symbol_cache' = symbol_cache
             /\ broker_symbols' = broker_symbols]_vars

\* a submit refused while disconnected, after an earlier session filled the cache
C2_Witness ==
    /\ last.op = "submit" /\ ~ connected /\ ~ last.ok
    /\ XAUUSD \in DOMAIN symbol_cache

\* C3: send_order returns success exactly when it handed a request to
\* order_send and the answer's retcode is DONE; any other answer, a partial
\* fill included, is a failure.
C3_SuccessIffDone ==
    last.op = "submit"
        => (last.ok <=> (Len(last.sent) = 1 /\ last.answers = <<"DONE">>))

\* a partial fill reported as a failure
C3_Witness ==
    /\ last.op = "submit" /\ Len(last.sent) = 1
    /\ last.answers = <<"DONE_PARTIAL">> /\ ~ last.ok

\* the price a request carries when it is read off the tick
TickPrice(o) ==
    IF o.sent[1].type = "ORDER_TYPE_BUY" THEN Tick.ask ELSE Tick.bid

\* C4 as stated: without a price the request carries the tick's ask for a
\* market buy and its bid for every other order type; a supplied price is used
\* unchanged; without a price and without a tick send_order fails and submits
\* nothing.
C4_SuppliedPriceUnchanged ==
    last.op = "submit" =>
        /\ (~ last.priced /\ last.sent # <<>>) => last.sent[1].price = TickPrice(last)
        /\ (last.priced /\ last.sent # <<>>) => last.sent[1].price = last.price
        /\ (~ last.priced /\ last.tick = "none") => (~ last.ok /\ last.sent = <<>>)

\* C4 amended: a price counts as supplied only when it is positive.  A positive
\* price is used unchanged and no tick is fetched; an absent, zero or negative
\* price is replaced by the tick's ask for a market buy and its bid for every
\* other order type, and by a failure without submission when the tick is absent.
C4_PositivePriceUnchanged ==
    last.op = "submit" =>
        LET supplied == last.priced /\ last.price > 0
        IN  /\ (~ supplied /\ last.sent # <<>>)
                => (last.sent[1].price = TickPrice(last) /\ last.ntick = 1)
            /\ (supplied /\ last.sent # <<>>)
                => (last.sent[1].price = last.price /\ last.ntick = 0)
            /\ (~ supplied /\ last.tick = "none") => (~ last.ok /\ last.sent = <<>>)

\* a buy limit with the price 0 sent at the tick's bid
C4_Witness ==
    /\ last.op = "submit" /\ last.action = "BUY_LIMIT"
    /\ last.priced /\ last.price = 0
    /\ last.sent # <<>> /\ last.sent[1].price = Tick.bid

-----------------------------------------------------------------------------
(* close_positions *)

\* C5: close_positions, when the broker reports no open position, returns
\* success and hands nothing to order_send.
C5_NothingToClose ==
    (last.op = "close" /\ last.fetch = "positions" /\ last.positions = <<>>)
        => (last.ok /\ last.sent = <<>>)

\* nothing to close for a symbol that was resolved first
C5_Witness ==
    /\ last.op = "close" /\ last.fetch = "positions" /\ last.positions = <<>>
    /\ last.sym = XAUUSD /\ last.name = XAUUSDm /\ last.ok

\* C6 as stated: once the positions are fetched, no failure to close one of
\* them ends the loop: every position is worked on, and close_positions
\* returns success whatever became of each.
C6_LoopNeverAborts ==
    (last.op = "close" /\ last.fetch = "positions")
        => (last.ok /\ last.ntick = Len(last.positions))

\* two positions, the tick of the first missing: the second is never looked at
C6_Witness ==
    /\ last.op = "close" /\ last.fetch = "positions"
    /\ Len(last.positions) = 2 /\ last.ntick = 1 /\ last.sent = <<>> /\ ~ last.ok

\* C23: every request close_positions hands to order_send is an immediate
\* deal for the position it is closing: the position's symbol, volume and
\* ticket, the opposite side, priced at the bid when it sells and at the ask
\* when it buys; a symbol filter is resolved first and positions_get is asked
\* for the resolved symbol only.
C23_ClosingRequest ==
    last.op = "close" =>
        /\ Len(last.sent) <= Len(last.positions)
        /\ \A i \in 1..Len(last.sent) :
              LET pos == last.positions[i]
                  rq  == last.sent[i]
              IN  /\ rq.action = "TRADE_ACTION_DEAL"
                  /\ rq.symbol = pos.symbol
                  /\ rq.volume = pos.volume
                  /\ rq.position = pos.ticket
                  /\ pos.type = "ORDER_TYPE_BUY"
                        => (rq.type = "ORDER_TYPE_SELL" /\ rq.price = Tick.bid)
                  /\ pos.type = "ORDER_TYPE_SELL"
                        => (rq.type = "ORDER_TYPE_BUY" /\ rq.price = Tick.ask)
        /\ last.sym = <<>> => (last.filter = <<>> /\ last.strategy = "none")
        /\ last.sym # <<>>
              => /\ last.strategy # "none"
                 /\ last.filter = last.name
                 /\ \A i \in 1..Len(last.positions) : last.positions[i].symbol = last.name
                 /\ last.name # last.sym
                       => (last.sym \in DOMAIN symbol_cache
                           /\ symbol_cache[last.sym] = last.name)

\* the short XAUUSDm position with ticket 2, fetched for the symbol XAUUSD and
\* closed by a buy at the ask
C23_Witness ==
    /\ last.op = "close" /\ last.sym = XAUUSD /\ last.filter = XAUUSDm
    /\ Len(last.positions) = 1 /\ Len(last.sent) = 1
    /\ last.sent[1].position = 2 /\ last.sent[1].type = "ORDER_TYPE_BUY"
    /\ last.sent[1].price = Tick.ask

-----------------------------------------------------------------------------
(* No retries *)

\* C24: nothing is retried: a submit hands at most one request to order_send;
\* a closePositions fetches the positions exactly once and hands order_send at
\* most one request per fetched position, whatever the broker answers.
C24_NoRetries ==
    /\ last.op = "submit"
          => /\ Len(last.sent) <= 1 /\ Len(last.answers) = Len(last.sent)
             /\ last.ntick <= 1 /\ last.npos = 0
    /\ last.op = "close"
          => /\ last.npos = 1
             /\ Len(last.sent) <= Len(last.positions)
             /\ Len(last.answers) = Len(last.sent)
             /\ last.ntick <= Len(last.positions)
             /\ \A i \in 1..Len(last.sent) :
                   /\ last.sent[i].position = last.positions[i].ticket
                   /\ \A j \in 1..Len(last.sent) :
                         last.sent[j].position = last.sent[i].position => j = i

\* two positions fetched, the first close rejected: one request for each and
\* none again for the first
C24_Witness ==
    /\ last.op = "close" /\ Len(last.positions) = 2
    /\ last.answers = <<"REJECT", "DONE">> /\ Len(last.sent) = 2

-----------------------------------------------------------------------------
(* The resolution engine: map_symbol *)

\* a step that is a call of map_symbol as the resolve operation
ResolveStep == last'.op = "resolve" /\ turn' # turn

\* the members of the universe that are `symbol` up to letter case
CaseVariants(symbol, universe) ==
    {i \in 1..Len(universe) : upper(universe[i]) = upper(symbol)}

\* C7 as stated: a symbol that is verbatim in the universe resolve works with
\* is returned unchanged and the cache then maps it to itself, in every
\* reachable state.
C7_VerbatimIdentity ==
    [][(ResolveStep /\ InList(last'.sym, broker_symbols'))
          => /\ last'.name = last'.sym
             /\ last'.sym \in DOMAIN symbol_cache'
             /\ symbol_cache'[last'.sym] = last'.sym]_vars

\* C7 amended: on a cache miss, a symbol that is verbatim in the universe is
\* returned unchanged and the cache then maps it to itself; a symbol the cache
\* already holds is answered from the cache, whatever the universe has become.
C7_VerbatimIdentityOnMiss ==
    [][ResolveStep =>
          /\ (InList(last'.sym, broker_symbols') /\ last'.sym \notin DOMAIN symbol_cache)
                => /\ last'.name = last'.sym
                   /\ last'.sym \in DOMAIN symbol_cache'
                   /\ symbol_cache'[last'.sym] = last'.sym
          /\ (last'.sym # <<>> /\ strip(last'.sym) \in DOMAIN symbol_cache)
                => /\ last'.name = symbol_cache[strip(last'.sym)]
                   /\ symbol_cache' = symbol_cache]_vars

\* XAUUSD settled by the exact strategy in the universe that lists it
C7_Witness ==
    /\ last.op = "resolve" /\ last.sym = XAUUSD /\ last.strategy = "exact"
    /\ InList(XAUUSD, broker_symbols)
    /\ last.name = XAUUSD /\ symbol_cache[XAUUSD] = XAUUSD

\* C8 as stated: a symbol that is not in the universe but is a universe member
\* up to letter case resolves to that member, in every reachable state.
C8_CaseVariant ==
    [][(/\ ResolveStep
        /\ ~ InList(last'.sym, broker_symbols')
        /\ CaseVariants(last'.sym, broker_symbols') # {})
          => \E i \in CaseVariants(last'.sym, broker_symbols') :
                 last'.name = broker_symbols'[i]]_vars

\* C8 amended: on a cache miss, a symbol that is not in the universe but is a
\* universe member up to letter case resolves to the first such member, in its
\* casing.
C8_CaseVariantOnMiss ==
    [][(/\ ResolveStep
        /\ last'.sym \notin DOMAIN symbol_cache
        /\ ~ InList(last'.sym, broker_symbols')
        /\ CaseVariants(last'.sym, broker_symbols') # {})
          => \E i \in CaseVariants(last'.sym, broker_symbols') :
                 /\ \A j \in CaseVariants(last'.sym, broker_symbols') : i <= j
                 /\ last'.name = broker_symbols'[i]]_vars

\* eurusd settled by the case-insensitive strategy
C8_Witness ==
    /\ last.op = "resolve" /\ last.sym = eurusd /\ last.strategy = "case"
    /\ last.name = EURUSD /\ symbol_cache[eurusd] = EURUSD

\* C9: of two consecutive resolve calls on one symbol the second returns what
\* the first returned and does no cascade work: no symbols_get call, no
\* symbol_info call, no strategy evaluated.
C9_CacheDeterminism ==
    [][(ResolveStep /\ last.op = "resolve" /\ last'.sym = last.sym)
          => /\ last'.name = last.name
             /\ last'.nlist = 0 /\ last'.ninfo = 0
             /\ last'.strategy \in {"cache", "rejected"}]_vars

\* GOLD resolved a second time in a row, the first by the description strategy
C9_Witness ==
    /\ last.op = "resolve" /\ last.again /\ last.sym = GOLD
    /\ last.strategy = "cache" /\ last.name = XAUUSDm /\ last.nlist = 0 /\ last.ninfo = 0

\* the names the broker lists in some listing
BrokerNames ==
    UNION { {l.names[i] : i \in 1..Len(l.names)} : l \in {x \in ListingOutcomes : x.kind = "names"} }

\* C11 as stated: resolve returns a broker symbol or its input unchanged, and
\* after every resolution the cache has an entry for the symbol it was given.
C11_AlwaysCached ==
    [][ResolveStep =>
          /\ last'.name \in BrokerNames \cup {last'.sym}
          /\ last'.sym \in DOMAIN symbol_cache']_vars

\* C11 amended: resolve of a string returns a broker symbol or its input
\* stripped of surrounding whitespace; for a non-empty input the cache then
\* maps the stripped input to the result; an empty input is returned as it is
\* and the cache is left alone.
C11_CachedUnlessEmpty ==
    [][ResolveStep =>
          /\ last'.name \in BrokerNames \cup {strip(last'.sym)}
          /\ last'.sym # <<>> =>
                /\ strip(last'.sym) \in DOMAIN symbol_cache'
                /\ symbol_cache'[strip(last'.sym)] = last'.name
          /\ last'.sym = <<>> =>
                /\ last'.name = <<>>
                /\ symbol_cache' = symbol_cache]_vars

\* GOLD found by no strategy, returned as it is and cached as itself
C11_Witness ==
    /\ last.op = "resolve" /\ last.sym = GOLD /\ last.strategy = "fallback"
    /\ last.name = GOLD /\ symbol_cache[GOLD] = GOLD

-----------------------------------------------------------------------------
(* The life of a cache entry *)

\* a step that is a call of clear_symbol_cache
ClearStep == turn' # turn /\ last'.op = "clear"

\* C21: an entry of the cache is changed or removed by no operation but
\* clear_symbol_cache: connect, disconnect, the universe refresh, resolve,
\* submit and closePositions leave every entry the cache holds as it is;
\* clear_symbol_cache removes every entry and leaves the universe as it is.
C21_EntriesKept ==
    [][/\ ~ ClearStep
             => \A k \in DOMAIN symbol_cache :
                    k \in DOMAIN symbol_cache' /\ symbol_cache'[k] = symbol_cache[k]
       /\ ClearStep
             => (DOMAIN symbol_cache' = {} /\ broker_symbols' = broker_symbols)]_vars

\* the entry a resolution wrote and returned has since been given another
\* value by the resolution of another request
C21_Witness ==
    \E t \in Threads :
        /\ pc[t] = "idle" /\ tl[t].done
        /\ tl[t].sym \in DOMAIN symbol_cache
        /\ tl[t].ret = XAUUSDm /\ symbol_cache[tl[t].sym] = XAUUSD

-----------------------------------------------------------------------------
(* The universe: refresh, and resolve while it is empty *)

\* a step that lists the broker's symbols on its own or as part of connect
RefreshStep == turn' # turn /\ last'.op \in {"refresh", "connect"} /\ last'.nlist = 1

\* a refresh whose listing fails raises nothing and leaves the universe empty
FailedRefreshEmpties ==
    RefreshStep =>
        /\ ~ last'.escaped
        /\ "_cache_broker_symbols" \in last'.raised => broker_symbols' = <<>>
        /\ broker_symbols' \in {cached_broker_symbols(l) : l \in ListingOutcomes}

\* after a refresh that succeeded, a symbol the cache does not hold goes
\* through the cascade on the refreshed universe
CascadeOnRefreshed ==
    (ResolveStep /\ last'.sym # <<>> /\ strip(last'.sym) \notin DOMAIN symbol_cache
       /\ broker_symbols' # <<>>)
        => /\ last'.nlist = (IF broker_symbols = <<>> THEN 1 ELSE 0)
           /\ \E d \in DescOutcomes :
                 \E o \in {cascade_memo[broker_symbols', strip(last'.sym), d]} :
                    last'.name = o.name /\ last'.strategy = o.strategy

\* C22 as stated: a failed listing leaves the universe empty and raises
\* nothing; while the universe is empty every resolve returns its input
\* unchanged; after the next successful refresh a symbol not yet cached goes
\* through the cascade on the refreshed universe.
C22_EmptyUniverseIdentity ==
    [][/\ FailedRefreshEmpties
       /\ (ResolveStep /\ broker_symbols = <<>> /\ broker_symbols' = <<>>)
             => last'.name = last'.sym
       /\ CascadeOnRefreshed]_vars

\* C22 amended: a failed listing leaves the universe empty and raises nothing;
\* while the universe is empty a resolve of a symbol the cache does not hold
\* makes one refresh attempt and returns its input stripped of surrounding
\* whitespace, cached as itself, while a symbol the cache holds is answered
\* from the cache without a refresh attempt; after the next successful refresh
\* a symbol not yet cached goes through the cascade on the refreshed universe.
C22_EmptyUniverseIdentityOnMiss ==
    [][/\ FailedRefreshEmpties
       /\ (ResolveStep /\ last'.sym # <<>> /\ broker_symbols = <<>> /\ broker_symbols' = <<>>)
             => LET key == strip(last'.sym)
                IN  IF key \in DOMAIN symbol_cache
                    THEN /\ last'.name = symbol_cache[key]
                         /\ last'.nlist = 0
                    ELSE /\ last'.name = key
                         /\ last'.nlist = 1
                         /\ key \in DOMAIN symbol_cache' /\ symbol_cache'[key] = key
       /\ CascadeOnRefreshed]_vars

\* with the universe empty, XAUUSD is answered from the cache with the name
\* an earlier cascade found
C22_Witness ==
    /\ last.op = "resolve" /\ last.sym = XAUUSD /\ broker_symbols = <<>>
    /\ last.strategy = "cache" /\ last.name = XAUUSDm

-----------------------------------------------------------------------------
(* The values of the cache *)

\* the names of some universe the handler is run against
ListedNames == UNION { {u[i] : i \in 1..Len(u)} : u \in Universes }

\* the entries of the cache a step has written
Written == {k \in DOMAIN symbol_cache' :
               k \notin DOMAIN symbol_cache \/ symbol_cache'[k] # symbol_cache[k]}

\* C26: every entry of the cache maps its key to the key itself or to a
\* symbol that was in the universe when the entry was written, and resolve
\* returns nothing but its input stripped of whitespace, a member of the
\* universe, or such a cached name.
C26_CacheValues ==
    [][/\ \A k \in Written :
             \/ symbol_cache'[k] = k
             \/ InList(symbol_cache'[k], broker_symbols')
       /\ \A k \in DOMAIN symbol_cache' :
             symbol_cache'[k] = k \/ symbol_cache'[k] \in ListedNames
       /\ ResolveStep
             => \/ last'.name = strip(last'.sym)
                \/ InList(last'.name, broker_symbols')
                \/ /\ strip(last'.sym) \in DOMAIN symbol_cache
                   /\ last'.name = symbol_cache[strip(last'.sym)]]_vars

\* the misspelt XAUSD cached under the broker's own spelling of the symbol the
\* fuzzy strategy found
C26_Witness ==
    /\ last.op = "resolve" /\ last.sym = XAUSD /\ last.strategy = "fuzzy"
    /\ XAUSD \in DOMAIN symbol_cache /\ symbol_cache[XAUSD] = XAUUSDm
    /\ InList(XAUUSDm, broker_symbols)

-----------------------------------------------------------------------------
(* Blank symbols *)

\* C27: a symbol that is empty once its whitespace is stripped is never mapped
\* to a broker symbol: map_symbol returns the input and selects no member of
\* the universe, and no order is placed for it on any instrument.
C27_BlankNeverMapped ==
    (last.op \in {"resolve", "submit", "close"} /\ last.strategy # "none"
       /\ strip(last.sym) = <<>>)
        => /\ last.name = last.sym
           /\ last.name \notin ListedNames
           /\ last.sent = <<>>

\* a market order on XAUUSDm placed for the signal whose symbol is one space
C27_Witness ==
    /\ last.op = "submit" /\ last.sym = Blank /\ last.strategy = "prefix"
    /\ last.ok /\ last.sent[1].symbol = XAUUSDm

-----------------------------------------------------------------------------
(* Orders and the connected flag *)

\* C28: orders are handed to the broker only while the handler is connected:
\* close_positions, like send_order, hands nothing to order_send when the
\* connected flag is false.
C28_OrdersOnlyConnected ==
    (last.op \in {"submit", "close"} /\ ~ connected) => last.sent = <<>>

\* close_positions run with the flag false: the positions were fetched and a
\* closing order for each was sent and done
C28_Witness ==
    /\ last.op = "close" /\ ~ connected
    /\ Len(last.positions) = 2 /\ last.answers = <<"DONE", "DONE">> /\ last.ok

-----------------------------------------------------------------------------
(* The cascade on the fixture universes *)

EmptyCache == [k \in {} |-> <<>>]
FixtureUniverse == <<XAUUSDm, EURUSD, BTCUSDpro>>

\* a resolve step that started with an empty cache on the fixture universe
FixtureStep ==
    ResolveStep /\ symbol_cache = EmptyCache /\ broker_symbols = FixtureUniverse

\* C12: with the universe [XAUUSDm, EURUSD, BTCUSD.pro] and an empty cache,
\* resolve(XAUUSD) returns XAUUSDm, resolve(eurusd) returns EURUSD and
\* resolve(BTCUSD) returns BTCUSD.pro.
C12_FixtureResolutions ==
    [][FixtureStep =>
          /\ last'.sym = XAUUSD => last'.name = XAUUSDm
          /\ last'.sym = eurusd => last'.name = EURUSD
          /\ last'.sym = BTCUSD => last'.name = BTCUSDpro]_vars

\* BTCUSD resolved to BTCUSD.pro, the first entry of the cache
C12_Witness ==
    /\ last.op = "resolve" /\ last.sym = BTCUSD /\ last.name = BTCUSDpro
    /\ broker_symbols = FixtureUniverse
    /\ DOMAIN symbol_cache = {BTCUSD} /\ last.strategy # "cache"

\* C13 as stated: with the universe [XAUUSDm, EURUSD, BTCUSD.pro] and an empty
\* cache, resolve(GOLD) returns XAUUSDm, through the transformation table or
\* the fuzzy strategy, not through the descriptions.
C13_GoldByAlias ==
    [][(FixtureStep /\ last'.sym = GOLD)
          => (last'.name = XAUUSDm /\ last'.strategy \in {"fuzzy", "transform"})]_vars

\* C13 amended: on that fixture neither the fuzzy strategy nor the
\* transformation table finds a match for GOLD.  resolve(GOLD) returns XAUUSDm
\* only through the description strategy, when the broker describes a symbol
\* as gold; otherwise it returns GOLD unchanged, by the fallback.
C13_GoldByDescriptionOnly ==
    [][(FixtureStep /\ last'.sym = GOLD) =>
          /\ last'.strategy \in {"description", "fallback"}
          /\ last'.strategy = "description" => last'.name = XAUUSDm
          /\ last'.strategy = "fallback" => last'.name = GOLD
          /\ last'.ninfo > 0]_vars

\* GOLD on the fixture with descriptions that say nothing: every symbol's
\* metadata was read and GOLD came back
C13_Witness ==
    /\ last.op = "resolve" /\ last.sym = GOLD /\ last.strategy = "fallback"
    /\ broker_symbols = FixtureUniverse /\ DOMAIN symbol_cache = {GOLD}
    /\ last.ninfo = Len(FixtureUniverse) /\ last.name = GOLD

\* the case-folded sequence similarity of a broker symbol to an external
\* symbol is at least 0.6: 2 * matches / total length >= 6 / 10
Similar(name, symbol) ==
    LET r == ratio(upper(name), upper(symbol))
    IN  10 * r[1] >= 6 * r[2]

\* C14: the fuzzy strategy never returns a broker symbol whose case-folded
\* similarity to the external symbol is below 0.6, and when no universe member
\* reaches 0.6 it reports no match and the cascade goes on to the later
\* strategies.
C14_FuzzyCutoff ==
    last.op = "resolve" =>
        /\ last.strategy = "fuzzy"
              => (InList(last.name, broker_symbols) /\ Similar(last.name, strip(last.sym)))
        /\ last.strategy \in {"description", "transform", "fallback"}
              => \A i \in 1..Len(broker_symbols) :
                     ~ Similar(broker_symbols[i], strip(last.sym))

\* the misspelt XAUSD settled by the fuzzy strategy
C14_Witness ==
    /\ last.op = "resolve" /\ last.sym = XAUSD /\ last.strategy = "fuzzy"
    /\ last.name = XAUUSDm /\ broker_symbols = FixtureUniverse

-----------------------------------------------------------------------------
(* The order of the cascade *)

\* the entries of the universe each strategy accepts for a key
ExactIn(key, U)      == {i \in 1..Len(U) : U[i] = key}
CaseIn(key, U)       == {i \in 1..Len(U) : upper(U[i]) = upper(key)}
NormalizedIn(key, U) == {i \in 1..Len(U) : normalize(U[i]) = normalize(key)}
PrefixIn(key, U)     == {i \in 1..Len(U) : startswith(upper(U[i]), upper(key))}
SubstringIn(key, U)  == {i \in 1..Len(U) : contains(upper(U[i]), upper(key))}
FuzzyIn(key, U)      == {i \in 1..Len(U) : Similar(U[i], key)}
Earliest(S) == CHOOSE i \in S : \A j \in S : i <= j

\* the first five strategies in their order: the sets of entries they accept
Ordered(key, U) ==
    <<ExactIn(key, U), CaseIn(key, U), NormalizedIn(key, U), PrefixIn(key, U),
      SubstringIn(key, U)>>
OrderNames == <<"exact", "case", "normalized", "prefix", "contains">>

\* C19: on a cache miss with a non-empty universe, resolve returns the match
\* of the first strategy that has one, in the order exact, case-insensitive,
\* normalized, prefix, substring, fuzzy, description, transformation, and the
\* input when none has; a later strategy's match is never returned when an
\* earlier strategy has a match; the prefix and the substring strategies
\* return the first entry of the universe that matches.
C19_CascadeOrder ==
    (last.op = "resolve" /\ last.strategy \notin {"none", "rejected", "cache", "no_universe"})
      => Let(strip(last.sym), LAMBDA key :
         Let(Ordered(key, broker_symbols), LAMBDA S :
         LET U == broker_symbols
         IN  /\ U # <<>>
             /\ \A k \in 1..Len(S) :
                   (S[k] # {} /\ \A j \in 1..(k - 1) : S[j] = {})
                      => /\ last.strategy = OrderNames[k]
                         /\ last.name = U[Earliest(S[k])]
             /\ (\A k \in 1..Len(S) : S[k] = {})
                  => Let(FuzzyIn(key, U), LAMBDA F :
                     /\ F # {} => /\ last.strategy = "fuzzy"
                                  /\ \E i \in F : last.name = U[i]
                     /\ F = {} =>
                        /\ last.strategy \in {"description", "transform", "fallback"}
                        /\ last.strategy = "transform"
                              => /\ InList(last.name, U)
                                 /\ transform_symbol(key, U).found
                                 /\ last.name = transform_symbol(key, U).name
                        /\ last.strategy = "fallback"
                              => /\ last.name = key
                                 /\ LET m == transform_symbol(key, U)
                                    IN  ~ (m.found /\ InList(m.name, U))
                        /\ last.strategy = "description" => InList(last.name, U)
                        /\ last.ninfo = 0 => last.strategy # "description")))

\* XAU settled by the prefix strategy on a universe with two entries that
\* start with it: the first one is returned
C19_Witness ==
    /\ last.op = "resolve" /\ last.sym = XAU /\ last.strategy = "prefix"
    /\ broker_symbols = <<XAUUSD, XAUUSDm, EURUSD>>
    /\ last.name = XAUUSD

-----------------------------------------------------------------------------
(* Exceptions of the broker's calls *)

\* C15: an exception a broker call raises during connect, resolve, submit,
\* closePositions or the symbol-info lookup does not reach the caller: it is
\* caught and turned into a failure result, which is False or None when it is
\* raised in the operation's own body or in verify_symbol, an empty universe
\* when raised by symbols_get, and no description match when raised by the
\* metadata call of the description strategy.
C15_ExceptionsCaught ==
    last.op \in {"connect", "resolve", "submit", "close", "info"} =>
        /\ ~ last.escaped
        /\ last.raised \cap {"connect", "send_order", "verify_symbol",
                             "close_positions", "get_symbol_info"} # {} => ~ last.ok
        /\ "verify_symbol" \in last.raised => last.sent = <<>>
        /\ "_cache_broker_symbols" \in last.raised => broker_symbols = <<>>
        /\ "description_match" \in last.raised => last.strategy # "description"

\* a symbol-info lookup in which both symbols_get and symbol_info raised
C15_Witness ==
    /\ last.op = "info" /\ last.sym = GOLD
    /\ last.raised = {"_cache_broker_symbols", "get_symbol_info"}
    /\ ~ last.escaped /\ ~ last.ok /\ last.name = GOLD

-----------------------------------------------------------------------------
(* Concurrent webhook delivery *)

\* thread t has made the first broker call of its submit or close operation
\* and not yet the last
InFlight(t) == pc[t] \in {"verified", "priced", "fetched", "quoted"}

\* C16: under concurrent webhook delivery the submit and close operations are
\* serialized: at no time are two of them between their first and their last
\* broker call.
C16_Serialized ==
    \A t1, t2 \in Threads : (InFlight(t1) /\ InFlight(t2)) => t1 = t2

\* one request has its price and is about to send its order while another has
\* fetched the positions it is closing
C16_Witness ==
    \E t1, t2 \in Threads : pc[t1] = "priced" /\ pc[t2] = "fetched"

\* thread t is running the strategies of a resolution
InCascade(t) == \E k \in 1..Len(Strategies) : pc[t] = Strategies[k]

\* the universe is the one every running cascade started with
StableUniverse == \A t \in Threads : InCascade(t) => broker_symbols = tl[t].seen

\* no entry of the cache is taken away or given another value
NoOverwrite ==
    \A k \in DOMAIN symbol_cache :
        k \in DOMAIN symbol_cache' /\ symbol_cache'[k] = symbol_cache[k]

\* what the threads last returned is what resolutions run one after the other
\* return: the cached name, the same for every thread that resolved the symbol
Sequential ==
    \A t \in Threads :
        (pc[t] = "idle" /\ tl[t].done)
            => /\ tl[t].sym \in DOMAIN symbol_cache
               /\ symbol_cache[tl[t].sym] = tl[t].ret

\* C17: concurrent resolutions and universe refreshes are synchronized: no
\* resolution runs its strategies against a universe that changes under it, no
\* cache entry is lost or overwritten with another value, and every resolution
\* returns what some sequential ordering of the operations returns.
C17_Synchronized ==
    [][StableUniverse' /\ NoOverwrite /\ Sequential']_vars

\* two threads resolved the same symbol, with no clear in between, to two
\* different names
C17_Witness ==
    \E t1, t2 \in Threads :
        /\ pc[t1] = "idle" /\ pc[t2] = "idle" /\ tl[t1].done /\ tl[t2].done
        /\ tl[t1].sym = tl[t2].sym /\ tl[t1].ret # tl[t2].ret

-----------------------------------------------------------------------------
(* The tradability gate of send_order *)

\* C20: a submit whose resolved symbol has no metadata fails; one whose symbol
\* is not on the watch-list tries to activate it, once, and fails when the
\* activation is refused; in these failures no tick is fetched and no order is
\* handed to the broker; an order is handed over only for the resolved symbol
\* and only when it is active, already or after a successful activation.
C20_TradabilityGate ==
    (last.op = "submit" /\ last.info # "unasked") =>
        /\ last.ninfo >= 1
        /\ last.info = "absent"
              => (~ last.ok /\ last.nselect = 0 /\ last.ntick = 0 /\ last.sent = <<>>)
        /\ last.info = "hidden_refused"
              => (~ last.ok /\ last.nselect = 1 /\ last.ntick = 0 /\ last.sent = <<>>)
        /\ last.info = "hidden_selected" => last.nselect = 1
        /\ last.info = "visible" => last.nselect = 0
        /\ last.sent # <<>>
              => /\ last.info \in {"visible", "hidden_selected"}
                 /\ \A i \in 1..Len(last.sent) : last.sent[i].symbol = last.name

\* a submit stopped at the gate: the activation of the hidden symbol was
\* refused
C20_Witness ==
    /\ last.op = "submit" /\ last.info = "hidden_refused" /\ last.nselect = 1
    /\ ~ last.ok /\ last.sent = <<>>

-----------------------------------------------------------------------------
(* The broker-side effects of send_order *)

\* the calls of an operation that change the broker's state: the requests
\* handed to order_send, and symbol_select putting a symbol on the watch-list
Received(o)  == o.sent
Activated(o) == o.nselect = 1 /\ o.info = "hidden_selected"

\* C18 as stated: a submit that returns failure has left no broker-side
\* effect: the broker received no order and its watch-list is as before.
C18_NoBrokerEffect ==
    (last.op = "submit" /\ ~ last.ok) => (Received(last) = <<>> /\ ~ Activated(last))

\* C18 amended: a submit that returns failure has handed the broker no order
\* when it failed at a gate before order_send (not connected, symbol not
\* tradeable, unsupported action, no tick for a market price), and otherwise
\* exactly one order that the broker did not answer with the done code; the
\* only other effect is the one activation of the resolved symbol when it was
\* hidden, and none at all when not connected.
C18_FailureEffects ==
    (last.op = "submit" /\ ~ last.ok) =>
        /\ Received(last) = <<>>
              <=> \/ last.info \notin {"visible", "hidden_selected"}
                  \/ last.action \notin RecognizedActions
                  \/ last.tick \in {"none", "raise"}
        /\ Received(last) # <<>>
              => /\ Len(Received(last)) = 1
                 /\ last.answers \in {<<"DONE_PARTIAL">>, <<"none">>, <<"raise">>}
                 /\ Received(last)[1].symbol = last.name
        /\ last.nselect = (IF last.info \in {"hidden_selected", "hidden_refused"} THEN 1 ELSE 0)
        /\ last.info = "unasked" => NoBrokerCall(last)
        /\ last.npos = 0

\* a failed submit that activated the symbol and whose order the broker
\* received and filled in part
C18_Witness ==
    /\ last.op = "submit" /\ ~ last.ok
    /\ Activated(last)
    /\ last.answers = <<"DONE_PARTIAL">>

-----------------------------------------------------------------------------
(* normalize *)

\* C10 as stated: normalize(normalize(s)) = normalize(s) for every string s.
C10_Idempotent ==
    Len(nRes) = 2 => nRes[2] = nRes[1]

\* C10 amended: a second normalize cuts one more suffix from a result that
\* ends in M, or else in PRO, and leaves every other result as it is.
C10_SecondPassCutsOneSuffix ==
    Len(nRes) = 2 =>
        LET r == nRes[1]
        IN  nRes[2] = IF endswith(r, <<"M">>) THEN SubSeq(r, 1, Len(r) - 1)
                      ELSE IF endswith(r, <<"P", "R", "O">>) THEN SubSeq(r, 1, Len(r) - 3)
                      ELSE r

\* MM normalizes to M, and M to the empty string
C10_Witness ==
    /\ Len(nRes) = 2 /\ nArg = <<"M", "M">>
    /\ nRes[1] = <<"M">> /\ nRes[2] = <<>>

\* The reference normalisation, step by step
ListedSuffixes ==
    << <<"M">>, <<"P","R","O">>, <<".","P","R","O">>, <<"_","P","R","O">>,
       <<".","M">>, <<"_","M">>, <<".">>, <<"-">>, <<"_">> >>
ListedPrefixes == << <<"M","T","5","_">>, <<"F","X","_">> >>

EndsIn(u, e)   == Len(e) <= Len(u) /\ \A i \in 1..Len(e) : u[Len(u) - Len(e) + i] = e[i]
StartsIn(u, e) == Len(e) <= Len(u) /\ \A i \in 1..Len(e) : u[i] = e[i]

\* u without the first listed suffix it ends with, if any
WithoutSuffix(u) ==
    LET hits == {k \in 1..Len(ListedSuffixes) : EndsIn(u, ListedSuffixes[k])}
    IN  IF hits = {} THEN u
        ELSE LET k == CHOOSE h \in hits : \A g \in hits : h <= g
             IN  [i \in 1..(Len(u) - Len(ListedSuffixes[k])) |-> u[i]]

\* u without the first listed prefix it starts with, if any
WithoutPrefix(u) ==
    LET hits == {k \in 1..Len(ListedPrefixes) : StartsIn(u, ListedPrefixes[k])}
    IN  IF hits = {} THEN u
        ELSE LET k == CHOOSE h \in hits : \A g \in hits : h <= g
                 n == Len(ListedPrefixes[k])
             IN  [i \in 1..(Len(u) - n) |-> u[i + n]]

AlphaNum ==
    {"A","B","C","D","E","F","G","H","I","J","K","L","M","N","O","P","Q","R","S","T",
     "U","V","W","X","Y","Z","0","1","2","3","4","5","6","7","8","9"}

RECURSIVE Kept(_)
Kept(u) ==
    IF u = <<>> THEN <<>>
    ELSE IF Head(u) \in AlphaNum THEN <<Head(u)>> \o Kept(Tail(u)) ELSE Kept(Tail(u))

Reference(s) == Kept(WithoutPrefix(WithoutSuffix(upper(s))))

\* C25: normalize(s) is the reference: s in upper case, without the first
\* suffix of [M, PRO, .PRO, _PRO, .M, _M, ., -, _] it ends with and no other,
\* then without the first prefix of [MT5_, FX_] it starts with, then without
\* any character that is not A-Z or 0-9; the result has only such characters,
\* and a string that ends in two listed suffixes loses only the last.
C25_NormalizeReference ==
    Len(nRes) >= 1 =>
        /\ nRes[1] = Reference(nArg)
        /\ \A i \in 1..Len(nRes[1]) : nRes[1][i] \in AlphaNum
        /\ (Len(nArg) >= 2 /\ upper(nArg)[Len(nArg)] = "M"
              /\ upper(nArg)[Len(nArg) - 1] \in AlphaNum)
              => nRes[1][Len(nRes[1])] = upper(nArg)[Len(nArg) - 1]

\* XmM ends in two listed suffixes and keeps the first of them
C25_Witness ==
    /\ nArg = <<"X", "m", "M">> /\ Len(nRes) >= 1 /\ nRes[1] = <<"X", "M">>


====
